---- MODULE Spec2Model ----
(***************************************************************************)
(* Model of artellapipe.tools.alembicmanager.widgets.base.alembicimporter: *)
(* the AlembicImporter panel.  Its state is the text of the Alembic path   *)
(* line edit; its environment is the disk (the .abc file and its           *)
(* `_abc.info` JSON sidecar), the DCC scene and the Alembic helper.  The   *)
(* operations are the Browse callback, the Import / Reference click        *)
(* handler (_on_import_alembic) and the static reference_alembic.          *)
(*                                                                         *)
(* Python strings (paths, node names, dict keys) are sequences of          *)
(* one-character strings, so that split / replace / startswith are         *)
(* computed character by character as the interpreter computes them.       *)
(***************************************************************************)
EXTENDS Integers, Sequences, FiniteSets, TLC

VARIABLES alembic_path_line, disk, info, scene, calls, last

vars == <<alembic_path_line, disk, info, scene, calls, last>>

(***************************************************************************)
(* Bounds of the model.                                                    *)
(***************************************************************************)
\* longest list of node names the Alembic helper returns
MaxNodes == 2
\* most keys of a tag info dictionary
MaxKeys == 2

(***************************************************************************)
(* Strings.                                                                *)
(***************************************************************************)
EmptyStr == << >>

\* '.abc', the first argument of str.replace at lines 171 and 290
ExtAbc == <<".", "a", "b", "c">>

\* '_abc.info', the second argument of str.replace at lines 171 and 290
InfoSuffix == <<"_", "a", "b", "c", ".", "i", "n", "f", "o">>

\* s.startswith(p)
StartsWith(s, p) ==
    /\ Len(s) >= Len(p)
    /\ SubSeq(s, 1, Len(p)) = p

\* s[n:]
Drop(s, n) == SubSeq(s, n + 1, Len(s))

\* s.replace(old, new): every non-overlapping occurrence, left to right
RECURSIVE StrReplace(_, _, _)
StrReplace(s, old, new) ==
    IF s = EmptyStr THEN EmptyStr
    ELSE IF StartsWith(s, old) THEN new \o StrReplace(Drop(s, Len(old)), old, new)
    ELSE <<Head(s)>> \o StrReplace(Tail(s), old, new)

\* s.split(sep)[0]: the part of s before the first occurrence of character sep
RECURSIVE SplitFirst(_, _)
SplitFirst(s, sep) ==
    IF s = EmptyStr \/ Head(s) = sep THEN EmptyStr
    ELSE <<Head(s)>> \o SplitFirst(Tail(s), sep)

\* index of the last occurrence of character c in s, 0 when there is none
LastIndexOf(s, c) ==
    LET hits == {i \in 1..Len(s) : s[i] = c}
    IN  IF hits = {} THEN 0 ELSE CHOOSE i \in hits : \A j \in hits : j <= i

\* os.path.basename(p)
Basename(p) == Drop(p, LastIndexOf(p, "/"))

\* os.path.dirname(p)
Dirname(p) ==
    LET i == LastIndexOf(p, "/")
    IN  IF i <= 1 THEN SubSeq(p, 1, i) ELSE SubSeq(p, 1, i - 1)

\* os.path.join(a, b)
PathJoin(a, b) ==
    IF StartsWith(b, <<"/">>) THEN b
    ELSE IF a = EmptyStr \/ a[Len(a)] = "/" THEN a \o b
    ELSE a \o <<"/">> \o b

\* abc_name = os.path.basename(abc_file).split('.')[0]
AbcName(abc_file) == SplitFirst(Basename(abc_file), ".")

\* tag_json_file = os.path.join(dirname, basename.replace('.abc', '_abc.info'))
TagJsonFile(abc_file) ==
    PathJoin(Dirname(abc_file), StrReplace(Basename(abc_file), ExtAbc, InfoSuffix))

\* os.path.isfile(p) against the files on disk
IsFile(files, p) == p \in files

(***************************************************************************)
(* Python values: None or a list, and the parsed JSON of the sidecar.      *)
(***************************************************************************)
PyNone == [none |-> TRUE, list |-> << >>]

PyList(l) == [none |-> FALSE, list |-> l]

\* python.force_list(var): None becomes [], a list stays itself
ForceList(v) == IF v.none THEN << >> ELSE v.list

JsonNull == [kind |-> "null", items |-> << >>, id |-> 0]

\* a sidecar whose text json.loads cannot parse
JsonInvalid == [kind |-> "invalid", items |-> << >>, id |-> 0]

JsonNum(i) == [kind |-> "num", items |-> << >>, id |-> i]

JsonList(elems) == [kind |-> "list", items |-> elems, id |-> 0]

JsonDict(entries) == [kind |-> "dict", items |-> entries, id |-> 0]

\* Python truth value of a parsed JSON value (`not tag_info`)
Truthy(v) ==
    \/ v.kind \in {"dict", "list"} /\ Len(v.items) > 0
    \/ v.kind = "num" /\ v.id # 0

\* tag_info.keys(), in the dictionary's iteration order
DictKeys(d) == [i \in 1..Len(d.items) |-> d.items[i].key]

\* tag_info[key]
DictGet(d, key) ==
    LET i == CHOOSE j \in 1..Len(d.items) : d.items[j].key = key
    IN  d.items[i].val

\* str(value)
Str(v) == [str_of |-> v]

(***************************************************************************)
(* The DCC scene: a sequence of nodes; a node keeps its position, its name *)
(* is the path the DCC knows it by.                                        *)
(***************************************************************************)
NoAttr == [has |-> FALSE, value |-> Str(JsonNull)]

Node(name, type, parent) == [name |-> name, type |-> type, parent |-> parent, tag |-> NoAttr]

\* tp.Dcc.object_exists(node)
ObjectExists(sc, n) == \E i \in 1..Len(sc) : sc[i].name = n

NodeIndex(sc, n) == CHOOSE i \in 1..Len(sc) : sc[i].name = n

\* tp.Dcc.node_type(node)
NodeType(sc, n) == sc[NodeIndex(sc, n)].type

\* tp.Dcc.node_parent(node): the empty string stands for None
NodeParent(sc, n) == sc[NodeIndex(sc, n)].parent

\* tp.Dcc.node_short_name(node): the last component of a '|' separated path
NodeShortName(n) == Drop(n, LastIndexOf(n, "|"))

\* '{}{}'.format(root, n) for a full path, '{}|{}'.format(root, n) otherwise
PathUnder(root, n) ==
    IF StartsWith(n, <<"|">>) THEN root \o n ELSE root \o <<"|">> \o n

\* tp.Dcc.set_parent(node, parent): the node moves under parent and, when it
\* was known by its full path, that path changes
SetParent(sc, n, parent) ==
    IF ~ObjectExists(sc, n) THEN sc
    ELSE [sc EXCEPT ![NodeIndex(sc, n)] =
            [@ EXCEPT !.parent = parent,
                      !.name = IF StartsWith(n, <<"|">>) THEN PathUnder(parent, n) ELSE n]]

Digits == <<"1", "2", "3", "4", "5", "6", "7", "8", "9">>

\* the name the DCC gives a new node: the one asked for, or that name with the
\* first free number appended when it is taken
UniqueName(sc, name) ==
    IF ~ObjectExists(sc, name) THEN name
    ELSE LET k == CHOOSE i \in 1..Len(Digits) :
                      /\ ~ObjectExists(sc, name \o <<Digits[i]>>)
                      /\ \A j \in 1..(i - 1) : ObjectExists(sc, name \o <<Digits[j]>>)
         IN  name \o <<Digits[k]>>

\* tp.Dcc.attribute_exists(node, 'tag_info')
AttributeExists(sc, n) == ObjectExists(sc, n) /\ sc[NodeIndex(sc, n)].tag.has

\* tp.Dcc.add_string_attribute(node, 'tag_info'): a new, empty attribute
AddStringAttribute(sc, n) ==
    IF ~ObjectExists(sc, n) THEN sc
    ELSE [sc EXCEPT ![NodeIndex(sc, n)].tag = [has |-> TRUE, value |-> Str(JsonNull)]]

\* tp.Dcc.set_string_attribute_value(node, 'tag_info', value)
SetStringAttributeValue(sc, n, value) ==
    IF ~ObjectExists(sc, n) THEN sc
    ELSE [sc EXCEPT ![NodeIndex(sc, n)].tag = [has |-> TRUE, value |-> value]]

(***************************************************************************)
(* The Alembic helper (alembic.import_alembic / alembic.reference_alembic) *)
(* is outside the repository.  One call returns None, an empty list or a   *)
(* list of distinct node names; the nodes it created are added to the      *)
(* scene.  What it does is an input of the handlers.                       *)
(***************************************************************************)
\* names the helper gives its nodes: a short name, a full path at the top
\* level, a full path under a group
NamePool == { <<"a">>, <<"|", "b">>, <<"|", "g", "|", "a">> }

NodeTypes == {"transform", "mesh"}

\* the parent a node of that name can have when the helper returns it
ParentsOf(name) ==
    IF ~StartsWith(name, <<"|">>) THEN {EmptyStr, <<"|", "g">>}
    ELSE IF LastIndexOf(name, "|") = 1 THEN {EmptyStr}
    ELSE {SubSeq(name, 1, LastIndexOf(name, "|") - 1)}

\* one returned name: whether a node of that name exists, and the node
NodeSpecs(sc, must_exist) ==
    { [exists |-> TRUE, node |-> Node(n, t, p)] :
          <<n, t, p>> \in { x \in NamePool \X NodeTypes \X {EmptyStr, <<"|", "g">>} :
                              /\ ~ObjectExists(sc, x[1])
                              /\ x[3] \in ParentsOf(x[1]) } }
    \cup (IF must_exist THEN {}
          ELSE { [exists |-> FALSE, node |-> Node(n, "transform", EmptyStr)] :
                     n \in {m \in NamePool : ~ObjectExists(sc, m)} })

\* what one call of the helper can do: None, [] or up to MaxNodes distinct names
HelperOutcomes(sc, must_exist) ==
    { [none |-> TRUE, nodes |-> << >>] }
    \cup { [none |-> FALSE, nodes |-> l] :
              l \in { q \in UNION { [1..m -> NodeSpecs(sc, must_exist)] : m \in 0..MaxNodes } :
                        \A i, j \in 1..Len(q) :
                            i # j => q[i].node.name # q[j].node.name } }

\* the helper's return value
HelperValue(outcome) ==
    IF outcome.none THEN PyNone
    ELSE PyList([i \in 1..Len(outcome.nodes) |-> outcome.nodes[i].node.name])

\* the scene after the helper created its nodes
RECURSIVE HelperScene(_, _, _)
HelperScene(sc, nodes, i) ==
    IF i > Len(nodes) THEN sc
    ELSE HelperScene(IF nodes[i].exists THEN Append(sc, nodes[i].node) ELSE sc, nodes, i + 1)

(***************************************************************************)
(* AlembicImporter._add_tag_info_data.  A frame st is the scene and the    *)
(* log of the calls made on the DCC facade, the logger, the helper and the *)
(* showOk signal.                                                          *)
(***************************************************************************)
AddTagInfoData(st, tag_info, attr_node) ==
    LET st1 == IF ~AttributeExists(st.scene, attr_node)
               THEN [st EXCEPT !.scene = AddStringAttribute(st.scene, attr_node),
                               !.calls = Append(st.calls,
                                   [op |-> "add_string_attribute", node |-> attr_node])]
               ELSE st
    IN  [st1 EXCEPT !.scene = SetStringAttributeValue(st1.scene, attr_node, Str(tag_info)),
                    !.calls = Append(st1.calls,
                        [op |-> "set_string_attribute_value", node |-> attr_node,
                         value |-> Str(tag_info)])]

Warn(st, msg) == [st EXCEPT !.calls = Append(st.calls, [op |-> "warning", msg |-> msg])]

Frame(sc) == [scene |-> sc, calls |-> << >>, added_tag |-> FALSE]

NotCalled == [called |-> FALSE, value |-> PyNone]

\* how an invocation ended: it returned value or raised exc, leaving the scene
\* and the log of frame st (kept in the variables scene and calls); helper is what the Alembic helper returned, mid the
\* scene when it returned, root the group reference_alembic created
Result(status, exc, value, st, tag_json_file, helper, mid) ==
    [status |-> status, exc |-> exc, value |-> value, scene |-> st.scene,
     calls |-> st.calls, tag_json_file |-> tag_json_file, helper |-> helper, mid |-> mid,
     root |-> EmptyStr]

(***************************************************************************)
(* AlembicImporter._import_alembic and AlembicImporter._reference_alembic  *)
(***************************************************************************)
\* _import_alembic(alembic_file, valid_tag_info): the helper is given nodes=
\* only when the tag info is valid
ImportAlembicMethod(st, alembic_file, valid_tag_info, outcome) ==
    [st |-> [st EXCEPT !.scene = HelperScene(st.scene, outcome.nodes, 1),
                       !.calls = Append(st.calls,
                           [op |-> "import_alembic", alembic_file |-> alembic_file,
                            nodes_kw |-> valid_tag_info])],
     value |-> HelperValue(outcome)]

\* a slip: the check of the node's parent is left out
SkipsParentingNoParentCheck(sc, obj) ==
    \/ ~ObjectExists(sc, obj)
    \/ NodeType(sc, obj) # "transform"

\* the three `continue` of lines 196-202 and 371-377
SkipsParenting(sc, obj) ==
    \/ ~ObjectExists(sc, obj)
    \/ NodeType(sc, obj) # "transform"
    \/ NodeParent(sc, obj) # EmptyStr

\* the loops at lines 195-203 and 370-378: every returned node that exists, is
\* a transform and has no parent is parented
RECURSIVE ParentNodes(_, _, _, _)
ParentNodes(st, nodes, parent, i) ==
    IF i > Len(nodes) THEN st
    ELSE LET obj == nodes[i]
             skip == SkipsParenting(st.scene, obj)
         IN  ParentNodes(
                 IF skip THEN st
                 ELSE [st EXCEPT !.scene = SetParent(st.scene, obj, parent),
                                 !.calls = Append(st.calls,
                                     [op |-> "set_parent", node |-> obj, parent |-> parent])],
                 nodes, parent, i + 1)

\* the parameters of _reference_alembic after self (line 358), none with a default
ReferenceAlembicParams == {"alembic_file", "namespace", "parent"}

\* the arguments the handler passes to it (line 303)
ReferenceAlembicArgs == {"alembic_file", "namespace"}

\* the body of _reference_alembic
ReferenceAlembicMethod(st, alembic_file, namespace, parent, outcome) ==
    LET st1 == [st EXCEPT !.scene = HelperScene(st.scene, outcome.nodes, 1),
                          !.calls = Append(st.calls,
                              [op |-> "reference_alembic", alembic_file |-> alembic_file,
                               namespace |-> namespace])]
        all_nodes == HelperValue(outcome)
    IN  IF ForceList(all_nodes) = << >>
        THEN [st |-> Warn(st1, "Error while reference Alembic file"), value |-> PyNone]
        ELSE [st |-> ParentNodes(st1, all_nodes.list, parent, 1), value |-> all_nodes]

(***************************************************************************)
(* AlembicImporter._on_import_alembic                                      *)
(***************************************************************************)
\* a slip: the whole tag info is written instead of the entry of the key
TagOfKeyWhole(tag_info, key) == tag_info

\* tag_info[key], the value line 315 writes
TagOfKey(tag_info, key) == DictGet(tag_info, key)

\* lines 312-316: the nodes whose short name is key get tag_info[key]
RECURSIVE TagNodes(_, _, _, _, _)
TagNodes(st, tag_info, key, reference_nodes, j) ==
    IF j > Len(reference_nodes) THEN st
    ELSE LET obj == reference_nodes[j]
             short_obj == NodeShortName(obj)
         IN  TagNodes(
                 IF key = short_obj
                 THEN [AddTagInfoData(st, TagOfKey(tag_info, key), obj) EXCEPT !.added_tag = TRUE]
                 ELSE st,
                 tag_info, key, reference_nodes, j + 1)

\* lines 310-316: for key in tag_info.keys()
RECURSIVE TagKeys(_, _, _, _, _)
TagKeys(st, tag_info, keys, reference_nodes, i) ==
    IF i > Len(keys) THEN st
    ELSE TagKeys(
             IF reference_nodes # << >>
             THEN TagNodes(st, tag_info, keys[i], reference_nodes, 1)
             ELSE st,
             tag_info, keys, reference_nodes, i + 1)

\* a slip: the whole tag info is written to the first node whether or not a
\* key matched
TagFirstNodeAlways(st3, tag_info, reference_nodes) ==
    AddTagInfoData(st3, tag_info, reference_nodes[1])

\* lines 318-319: the whole tag info goes to the first node when no key matched
TagFirstNode(st3, tag_info, reference_nodes) ==
    IF ~st3.added_tag THEN AddTagInfoData(st3, tag_info, reference_nodes[1]) ELSE st3

\* a slip: the two messages are exchanged
EmitShowOkSwapped(st4, reference_nodes, as_reference) ==
    IF reference_nodes # << >>
    THEN [st4 EXCEPT !.calls = Append(st4.calls,
             [op |-> "showOk",
              msg |-> IF as_reference THEN "Alembic file imported successfully!"
                      ELSE "Alembic file referenced successfully!"])]
    ELSE st4

\* lines 321-325: showOk is emitted when there are nodes
EmitShowOk(st4, reference_nodes, as_reference) ==
    IF reference_nodes # << >>
    THEN [st4 EXCEPT !.calls = Append(st4.calls,
             [op |-> "showOk",
              msg |-> IF as_reference THEN "Alembic file referenced successfully!"
                      ELSE "Alembic file imported successfully!"])]
    ELSE st4

\* lines 309-327, entered with the frame st2 the import / reference call left.
\* look is the outcome of the sidecar lookup of lines 290-300; tag_info is a
\* local variable only when line 294 assigned it (look.bound).
TagAndReport(st2, look, reference_nodes, as_reference, helper) ==
    LET tag_info == look.tag_info
        file == look.tag_json_file
    IN  IF ~look.bound
        THEN Result("raised", "UnboundLocalError", PyNone, st2, file, helper, st2.scene)
        ELSE IF tag_info.kind # "dict"
        THEN Result("raised", "AttributeError", PyNone, st2, file, helper, st2.scene)
        ELSE LET st3 == TagKeys(st2, tag_info, DictKeys(tag_info), reference_nodes, 1)
             IN  IF ~st3.added_tag /\ reference_nodes = << >>
                 THEN Result("raised", "IndexError", PyNone, st3, file, helper, st2.scene)
                 ELSE LET st4 == TagFirstNode(st3, tag_info, reference_nodes)
                          st5 == EmitShowOk(st4, reference_nodes, as_reference)
                      IN  Result("returned", "", PyList(reference_nodes), st5, file, helper,
                                 st2.scene)

\* lines 302-307, entered with the frame st1 the sidecar lookup left
CallAndTag(st1, abc_file, look, as_reference, outcome) ==
    IF as_reference /\ ~(ReferenceAlembicParams \subseteq ReferenceAlembicArgs)
    THEN Result("raised", "TypeError", PyNone, st1, look.tag_json_file, NotCalled, st1.scene)
    ELSE LET abc_name == AbcName(abc_file)
             call == IF as_reference
                     THEN ReferenceAlembicMethod(st1, abc_file, abc_name, EmptyStr, outcome)
                     ELSE ImportAlembicMethod(st1, abc_file, look.valid_tag_info, outcome)
         IN  TagAndReport(call.st, look, ForceList(call.value), as_reference,
                          [called |-> TRUE, value |-> HelperValue(outcome)])

\* lines 290-300: the sidecar lookup.  content is what the sidecar on disk holds.
ReadTagInfo(files, content, abc_file) ==
    LET tag_json_file == TagJsonFile(abc_file)
        found == IsFile(files, tag_json_file)
    IN  [tag_json_file |-> tag_json_file,
         found |-> found,
         bound |-> found,
         tag_info |-> content,
         valid_tag_info |-> found /\ Truthy(content)]

\* a slip: only the empty path is refused
NoFileSelectedEmptyOnly(files, abc_file) == abc_file = EmptyStr

\* line 284: not abc_file or not os.path.isfile(abc_file)
NoFileSelected(files, abc_file) == abc_file = EmptyStr \/ ~IsFile(files, abc_file)

\* the whole handler: text is the line edit's text, files and content the disk,
\* sc the scene, outcome what the helper does if it is called
OnImportAlembic(text, files, content, sc, as_reference, outcome) ==
    LET abc_file == text
        st0 == Frame(sc)
        look == ReadTagInfo(files, content, abc_file)
    IN  IF NoFileSelected(files, abc_file)
        THEN Result("returned", "", PyNone,
                    [st0 EXCEPT !.calls = Append(st0.calls, [op |-> "confirm_dialog"])],
                    EmptyStr, NotCalled, sc)
        ELSE IF look.found /\ content.kind = "invalid"
        THEN Result("raised", "ValueError", PyNone, st0, look.tag_json_file, NotCalled, sc)
        ELSE LET st1 == IF ~look.found THEN Warn(st0, "No Alembic Info file found!")
                        ELSE IF ~look.valid_tag_info THEN Warn(st0, "No Alembic Info loaded!")
                        ELSE st0
             IN  CallAndTag(st1, abc_file, look, as_reference, outcome)

(***************************************************************************)
(* AlembicImporter.reference_alembic (static)                              *)
(***************************************************************************)
\* tp.Dcc.create_empty_group(name=abc_name): a new transform at the top level
CreateEmptyGroup(st, name) ==
    LET root == UniqueName(st.scene, name)
    IN  [st |-> [st EXCEPT !.scene = Append(st.scene, Node(root, "transform", EmptyStr)),
                           !.calls = Append(st.calls,
                               [op |-> "create_empty_group", name |-> name])],
         root |-> root]

\* lines 209-219: the paths returned under Maya
MayaPaths(sc, new_nodes, root) ==
    [i \in 1..Len(new_nodes) |->
        IF ObjectExists(sc, new_nodes[i]) THEN new_nodes[i]
        ELSE PathUnder(root, new_nodes[i])]

\* lines 182-221, entered once the sidecar was read and found non-empty
CreateAndReference(st0, alembic_path, namespace, is_maya, tag_info, file, outcome) ==
    LET abc_name == AbcName(alembic_path)
        grp == CreateEmptyGroup(st0, abc_name)
        root == grp.root
        st1 == AddTagInfoData(grp.st, tag_info, root)
        sel == <<root>>
        ns == IF namespace = EmptyStr THEN abc_name ELSE namespace
        st2 == [st1 EXCEPT !.scene = HelperScene(st1.scene, outcome.nodes, 1),
                           !.calls = Append(st1.calls,
                               [op |-> "reference_alembic", alembic_file |-> alembic_path,
                                namespace |-> ns])]
        helper == [called |-> TRUE, value |-> HelperValue(outcome)]
        new_nodes == ForceList(HelperValue(outcome))
    IN  IF new_nodes = << >>
        THEN [Result("returned", "", PyNone,
                     Warn(st2, "Error while reference Alembic file"), file, helper, st2.scene)
                EXCEPT !.root = root]
        ELSE LET st3 == ParentNodes(st2, new_nodes, sel[1], 1)
                 st4 == [st3 EXCEPT !.calls = Append(st3.calls,
                            [op |-> "select_object", node |-> sel[1]])]
                 inserted == <<sel[1]>> \o new_nodes
             IN  [Result("returned", "",
                         PyList(IF is_maya THEN MayaPaths(st4.scene, inserted, sel[1])
                                ELSE inserted),
                         st4, file, helper, st2.scene)
                    EXCEPT !.root = root]

\* the whole function; namespace = "" stands for namespace=None
ReferenceAlembic(alembic_path, namespace, is_maya, files, content, sc, outcome) ==
    LET st0 == Frame(sc)
        tag_json_file == TagJsonFile(alembic_path)
    IN  IF alembic_path = EmptyStr \/ ~IsFile(files, alembic_path)
        THEN Result("returned", "", PyNone, Warn(st0, "Alembic file does not exits!"),
                    EmptyStr, NotCalled, sc)
        ELSE IF ~IsFile(files, tag_json_file)
        THEN Result("returned", "", PyNone, Warn(st0, "No Alembic Info file found!"),
                    tag_json_file, NotCalled, sc)
        ELSE IF content.kind = "invalid"
        THEN Result("raised", "ValueError", PyNone, st0, tag_json_file, NotCalled, sc)
        ELSE IF ~Truthy(content)
        THEN Result("returned", "", PyNone, Warn(st0, "No Alembic Info loaded!"),
                    tag_json_file, NotCalled, sc)
        ELSE CreateAndReference(st0, alembic_path, namespace, is_maya, content,
                                tag_json_file, outcome)

(***************************************************************************)
(* The environment: the Alembic files an artist can pick, what is on disk, *)
(* and the scene the panel is opened in.                                   *)
(***************************************************************************)
\* file names without the .abc extension: plain, with a further dot, with a
\* further '.abc'
Stems == { <<"x">>, <<"x", ".", "y">>, <<"x", ".", "a", "b", "c">> }

AbcFiles == { <<"d", "/">> \o stem \o ExtAbc : stem \in Stems }

\* where the tag info file of an Alembic file is: `<name>_abc.info` next to it
SidecarOf(abc_file) == SubSeq(abc_file, 1, Len(abc_file) - Len(ExtAbc)) \o InfoSuffix

\* the disk: no file, the Alembic files alone, or each with its sidecar
DiskStates == { {}, AbcFiles, AbcFiles \cup { SidecarOf(f) : f \in AbcFiles } }

\* keys of a tag info file: the short names a and b of helper nodes, and a key
\* of a flat metadata dictionary
KeyPool == { <<"a">>, <<"b">>, <<"k">> }

\* the metadata stored under a key
MetaOf(key) ==
    JsonDict(<< [key |-> <<"v">>,
                 val |-> JsonNum(CASE key = <<"a">> -> 1 [] key = <<"b">> -> 2 [] OTHER -> 3)] >>)

\* dictionaries of up to MaxKeys distinct keys, in every iteration order
TagDicts ==
    { JsonDict([i \in 1..Len(ks) |-> [key |-> ks[i], val |-> MetaOf(ks[i])]]) :
        ks \in { q \in UNION { [1..m -> KeyPool] : m \in 0..MaxKeys } :
                   \A i, j \in 1..Len(q) : i # j => q[i] # q[j] } }

\* what a sidecar can hold: unparsable text, null, [], a non-empty list, {} and
\* the dictionaries
Infos ==
    { JsonInvalid, JsonNull, JsonList(<< >>),
      JsonList(<< [key |-> EmptyStr, val |-> JsonNum(1)] >>) } \cup TagDicts

\* scenes the panel is opened in: empty, or holding a node named like the root
\* group of the Alembic files
InitialScenes == { << >>, << Node(<<"x">>, "transform", EmptyStr) >> }

Namespaces == { EmptyStr, <<"n", "s">> }

IdleLast ==
    [op |-> "none", as_reference |-> FALSE, abc_file |-> EmptyStr, namespace |-> EmptyStr,
     is_maya |-> FALSE, pre |-> << >>,
     result |-> Result("idle", "", PyNone, Frame(<< >>), EmptyStr, NotCalled, << >>)]

Init ==
    /\ alembic_path_line = EmptyStr
    /\ disk \in DiskStates
    /\ info \in (IF \E f \in AbcFiles : SidecarOf(f) \in disk THEN Infos ELSE {JsonNull})
    /\ scene \in InitialScenes
    /\ calls = << >>
    /\ last = IdleLast

Idle == last.op = "none"

\* _on_browse_alembic: the file dialog returns a path, or nothing when cancelled
OnBrowseAlembic ==
    /\ Idle
    /\ \E abc_file \in AbcFiles \cup {EmptyStr} :
          alembic_path_line' = IF abc_file # EmptyStr THEN abc_file ELSE alembic_path_line
    /\ UNCHANGED <<disk, info, scene, calls, last>>

\* one click: the handler runs to its return or to the exception it raises
Click(as_reference, outcome) ==
    LET r == OnImportAlembic(alembic_path_line, disk, info, scene, as_reference, outcome)
    IN  /\ scene' = r.scene
        /\ calls' = r.calls
        /\ last' = [op |-> "on_import_alembic", as_reference |-> as_reference,
                    abc_file |-> alembic_path_line, namespace |-> EmptyStr,
                    is_maya |-> FALSE, pre |-> scene,
                    result |-> [r EXCEPT !.scene = << >>, !.calls = << >>]]

\* self._import_btn.clicked.connect(self._on_import_alembic)
ImportClicked ==
    /\ Idle
    /\ \E outcome \in HelperOutcomes(scene, TRUE) : Click(FALSE, outcome)
    /\ UNCHANGED <<alembic_path_line, disk, info>>

\* self._reference_btn.clicked.connect(partial(self._on_import_alembic, True))
ReferenceClicked ==
    /\ Idle
    /\ \E outcome \in HelperOutcomes(scene, FALSE) : Click(TRUE, outcome)
    /\ UNCHANGED <<alembic_path_line, disk, info>>

\* a caller of the static AlembicImporter.reference_alembic
ReferenceAlembicCalled ==
    /\ Idle
    /\ \E alembic_path \in AbcFiles \cup {EmptyStr}, namespace \in Namespaces,
          is_maya \in BOOLEAN, outcome \in HelperOutcomes(scene, FALSE) :
          LET r == ReferenceAlembic(alembic_path, namespace, is_maya, disk, info, scene, outcome)
          IN  /\ scene' = r.scene
              /\ calls' = r.calls
              /\ last' = [op |-> "reference_alembic", as_reference |-> TRUE,
                          abc_file |-> alembic_path, namespace |-> namespace,
                          is_maya |-> is_maya, pre |-> scene,
                    result |-> [r EXCEPT !.scene = << >>, !.calls = << >>]]
    /\ UNCHANGED <<alembic_path_line, disk, info>>

\* the panel: browsing, then one click of Import or Reference
Next == OnBrowseAlembic \/ ImportClicked \/ ReferenceClicked

Spec == Init /\ [][Next]_vars

\* the static function, called without a panel
NextStatic == ReferenceAlembicCalled

SpecStatic == Init /\ [][NextStatic]_vars

(***************************************************************************)
(* Properties.  They read the last invocation: its inputs (last), its      *)
(* outcome (last.result), the log of its calls and the scene it left.      *)
(***************************************************************************)
R == last.result

Handled == last.op = "on_import_alembic"

StaticDone == last.op = "reference_alembic"

Range(q) == { q[i] : i \in 1..Len(q) }

\* positions in the log of the tag_info writes
Writes == { i \in 1..Len(calls) : calls[i].op = "set_string_attribute_value" }

WritesTo(n) == { i \in Writes : calls[i].node = n }

\* positions in the log of the calls that touch the tag_info attribute
AttrCalls ==
    { i \in 1..Len(calls) :
        calls[i].op \in {"add_string_attribute", "set_string_attribute_value"} }

Emits == { i \in 1..Len(calls) : calls[i].op = "showOk" }

Warnings == { i \in 1..Len(calls) : calls[i].op = "warning" }

HelperCalls == { i \in 1..Len(calls) : calls[i].op \in {"import_alembic", "reference_alembic"} }

\* the node names the helper returned
HelperNodes == ForceList(R.helper.value)

\* the selected .abc file is on disk
FileOnDisk == last.abc_file # EmptyStr /\ last.abc_file \in disk

\* its sidecar is on disk, where the handler looks for it, and holds a
\* non-empty dictionary
ValidSidecar ==
    /\ SidecarOf(last.abc_file) \in disk
    /\ R.tag_json_file \in disk
    /\ info.kind = "dict"
    /\ Truthy(info)

\* the tag_info attribute of the node now known as n
TagAt(n) == scene[NodeIndex(scene, n)].tag

\* C1: Import clicked with the selected .abc file on disk and its sidecar absent
\* or parsed to an empty value: a warning is logged, the import call is made
\* and the handler returns without raising.
C1_MissingSidecarNonFatal ==
    ( /\ Handled
      /\ ~last.as_reference
      /\ FileOnDisk
      /\ \/ SidecarOf(last.abc_file) \notin disk
         \/ SidecarOf(last.abc_file) \in disk /\ info.kind # "invalid" /\ ~Truthy(info) )
    => /\ Warnings # {}
       /\ HelperCalls # {}
       /\ R.status = "returned"

\* C2: the helper was called for a file with a valid sidecar and returned no
\* node (None or []): the handler returns without raising, writes no tag_info
\* and does not emit showOk.
C2_FailedCallNonFatal ==
    ( /\ Handled
      /\ FileOnDisk
      /\ ValidSidecar
      /\ R.helper.called
      /\ HelperNodes = << >> )
    => /\ R.status = "returned"
       /\ AttrCalls = {}
       /\ Emits = {}

\* C3: Reference clicked with a selected .abc file on disk and a valid
\* non-empty sidecar: the helper's reference_alembic is called with that file
\* and the file's base name as namespace, and the handler returns the nodes
\* the helper returned.
C3_ReferenceButtonReferences ==
    ( /\ Handled
      /\ last.as_reference
      /\ FileOnDisk
      /\ ValidSidecar )
    => /\ \E i \in HelperCalls :
             /\ calls[i].op = "reference_alembic"
             /\ calls[i].alembic_file = last.abc_file
             /\ calls[i].namespace = AbcName(last.abc_file)
       /\ R.status = "returned"
       /\ R.value = PyList(HelperNodes)

\* C4: when no file is selected or the selected path is not a file on disk, the
\* handler shows the confirm dialog and returns None; it calls neither the
\* helper nor any scene-modifying operation, and emits no showOk.
C4_NoFileDialogOnly ==
    ( Handled /\ ~FileOnDisk )
    => /\ Len(calls) = 1
       /\ calls[1].op = "confirm_dialog"
       /\ R.status = "returned"
       /\ R.value = PyNone
       /\ ~R.helper.called
       /\ scene = last.pre

C4_Witness ==
    /\ Handled
    /\ last.abc_file # EmptyStr
    /\ last.abc_file \notin disk
    /\ Len(calls) = 1

\* the returned nodes whose short name is a key of the tag info
Matched == { n \in Range(HelperNodes) : NodeShortName(n) \in Range(DictKeys(info)) }

SuccessfulImport ==
    /\ Handled
    /\ ~last.as_reference
    /\ FileOnDisk
    /\ ValidSidecar
    /\ HelperNodes # << >>

\* C5: after a successful import with a non-empty tag info dictionary, every
\* returned node whose short name is a key carries the stringified metadata
\* stored under that key; when some node matches, the nodes that match no key
\* are not written; the whole tag info is written only when no node matches,
\* and then to the first returned node only.
C5_TagLookupByShortName ==
    SuccessfulImport
    => /\ R.status = "returned"
       /\ \A n \in Matched :
             /\ WritesTo(n) # {}
             /\ TagAt(n) = [has |-> TRUE, value |-> Str(MetaOf(NodeShortName(n)))]
       /\ Matched # {} =>
             /\ \A n \in Range(HelperNodes) \ Matched : WritesTo(n) = {} /\ TagAt(n) = NoAttr
             /\ \A i \in Writes : calls[i].value # Str(info)
       /\ Matched = {} =>
             /\ \A i \in Writes : calls[i].node = HelperNodes[1] /\ calls[i].value = Str(info)
             /\ Cardinality(Writes) = 1
             /\ TagAt(HelperNodes[1]) = [has |-> TRUE, value |-> Str(info)]
             /\ \A j \in 2..Len(HelperNodes) : TagAt(HelperNodes[j]) = NoAttr

\* two nodes are returned, one matches a key and the other does not
C5_Witness ==
    /\ SuccessfulImport
    /\ Len(HelperNodes) = 2
    /\ Matched # {}
    /\ Matched # Range(HelperNodes)
    /\ Writes # {}

C7_SidecarFilename ==
    ( Handled /\ R.tag_json_file # EmptyStr )
    => R.tag_json_file = SidecarOf(last.abc_file)

\* C8: when the static reference_alembic returns None it has left the scene as
\* it was: no node created, no tag_info written.
C8_AllOrNothing ==
    ( StaticDone /\ R.status = "returned" /\ R.value = PyNone )
    => /\ scene = last.pre
       /\ AttrCalls = {}

StaticSuccess == StaticDone /\ R.status = "returned" /\ R.value # PyNone

\* C9: when the static reference_alembic succeeds, the returned list starts
\* with the root group it created, which is named after the file's base name
\* and carries the tag info; every node the helper returned that exists, is a
\* transform and had no parent is parented under the root, and every other
\* node keeps its parent.
C9_RootAndParenting ==
    StaticSuccess
    => /\ R.value.list[1] = R.root
       /\ Len(scene) > Len(last.pre)
       /\ scene[Len(last.pre) + 1].name = R.root
       /\ ~ObjectExists(last.pre, R.root)
       /\ StartsWith(R.root, SplitFirst(Basename(last.abc_file), "."))
       /\ scene[Len(last.pre) + 1].tag = [has |-> TRUE, value |-> Str(info)]
       /\ Len(scene) = Len(R.mid)
       /\ \A i \in 1..Len(R.mid) :
             IF /\ R.mid[i].name \in Range(HelperNodes)
                /\ R.mid[i].type = "transform"
                /\ R.mid[i].parent = EmptyStr
             THEN scene[i].parent = R.root
             ELSE scene[i].parent = R.mid[i].parent

\* one returned node is parented under the root and another keeps its parent
C9_Witness ==
    /\ StaticSuccess
    /\ \E i, j \in 1..Len(R.mid) :
          /\ R.mid[i].name \in Range(HelperNodes)
          /\ R.mid[j].name \in Range(HelperNodes)
          /\ R.mid[i].parent = EmptyStr
          /\ scene[i].parent = R.root
          /\ R.mid[j].parent # EmptyStr
          /\ scene[j].parent = R.mid[j].parent

\* C10: one invocation of the handler emits showOk at most once, only if the
\* helper returned at least one node, only after every tag_info write of the
\* invocation, and with the 'referenced' message exactly when as_reference is
\* true and the 'imported' message otherwise.
C10_ShowOk ==
    Handled
    => /\ Cardinality(Emits) <= 1
       /\ Emits # {} => R.helper.called /\ HelperNodes # << >>
       /\ \A e \in Emits : \A w \in AttrCalls : w < e
       /\ \A e \in Emits :
             calls[e].msg = IF last.as_reference
                            THEN "Alembic file referenced successfully!"
                            ELSE "Alembic file imported successfully!"

\* showOk was emitted after a tag_info write
C10_Witness ==
    /\ Handled
    /\ Emits # {}
    /\ Writes # {}
    /\ \A e \in Emits : e = Len(calls)

====
